---- MODULE Spec2Model ----
(***************************************************************************)
(* A model of syconf-lib: the compiler of compiler/compile.rs, the global  *)
(* built-in functions of compiler/functions/mod.rs and the string method   *)
(* unindent of compiler/methods/string.rs.                                 *)
(*                                                                         *)
(* The language is pure, so every operation is a function of its input.    *)
(* Each specification draws one input in Init (pc = "start") and has one   *)
(* action per operation that applies it (pc = "done").                     *)
(***************************************************************************)
EXTENDS Integers, Sequences, FiniteSets, TLC

VARIABLES pc, input, output

vars == <<pc, input, output>>

(***************************************************************************)
(* Bounds of the model.                                                    *)
(***************************************************************************)
\* most arguments of one call of a built-in
MaxArgs == 3
\* most elements of a list given to fold
MaxLen == 3
\* most elements of a list given to concat
MaxConcatLen == 2
\* most local assignments of a block
MaxLets == 2
\* most whitespace characters in front of a line
MaxIndent == 4
\* most lines of a string given to unindent
MaxLines == 3

\* all sequences over S of length 0..n
SeqUpTo(S, n) == UNION {[1..k -> S] : k \in 0..n}

(***************************************************************************)
(* Values (compiler::Value) and results (Result<Value, Error>).            *)
(***************************************************************************)
VBool(b) == [type |-> "Bool", v |-> b]
VInt(i) == [type |-> "Int", v |-> i]
VString(s) == [type |-> "String", v |-> s]
VList(l) == [type |-> "List", v |-> l]
VHashMap(m) == [type |-> "HashMap", v |-> m]
VFunc(f) == [type |-> "Func", v |-> f]

Ok(v) == [kind |-> "Ok", val |-> v]
Err(msg) == [kind |-> "Err", val |-> msg]
\* the thread panics: no Result is returned
Panic(msg) == [kind |-> "Panic", val |-> msg]

IsOk(r) == r.kind = "Ok"
IsErr(r) == r.kind = "Err"

\* ValueExtractor: the payload of the expected variant, or an error
as_list(x) == IF x.type = "List" THEN Ok(x.v) ELSE Err("expects a list")
as_hashmap(x) == IF x.type = "HashMap" THEN Ok(x.v) ELSE Err("expects a hashmap")
as_func(x) == IF x.type = "Func" THEN Ok(x.v) ELSE Err("expects a function")

(***************************************************************************)
(* functions/mod.rs: lookup                                                *)
(***************************************************************************)
BuiltinNames == {"read_file", "getenv", "concat", "merge", "fold"}

\* the built-in registered under function_name, or "None"
lookup(function_name) ==
    CASE function_name = "read_file" -> "read_file"
      [] function_name = "getenv" -> "getenv"
      [] function_name = "concat" -> "concat"
      [] function_name = "merge" -> "merge"
      [] function_name = "fold" -> "fold"
      [] OTHER -> "None"

(***************************************************************************)
(* functions/mod.rs: concat_strings                                        *)
(***************************************************************************)
Digit(d) == <<"0", "1", "2", "3", "4", "5", "6", "7", "8", "9">>[d + 1]

RECURSIVE Digits(_)
Digits(n) == IF n < 10 THEN Digit(n) ELSE Digits(n \div 10) \o Digit(n % 10)

\* i32::to_string
IntToString(x) == IF x < 0 THEN "-" \o Digits(0 - x) ELSE Digits(x)

\* bool::to_string
BoolToString(x) == IF x THEN "true" ELSE "false"

\* concat_strings_loop writing each argument in front of the output
RECURSIVE concat_strings_loop_prepend(_, _, _)
concat_strings_loop_prepend(args, i, out) ==
    IF i > Len(args) THEN Ok(VString(out))
    ELSE LET s == args[i] IN
         CASE s.type = "String" -> concat_strings_loop_prepend(args, i + 1, s.v \o out)
           [] s.type = "Int" ->
                concat_strings_loop_prepend(args, i + 1, IntToString(s.v) \o out)
           [] s.type = "Bool" ->
                concat_strings_loop_prepend(args, i + 1, BoolToString(s.v) \o out)
           [] OTHER -> Err("Cannot format a non-primitive type")

RECURSIVE concat_strings_loop(_, _, _)
concat_strings_loop(args, i, out) ==
    IF i > Len(args) THEN Ok(VString(out))
    ELSE LET s == args[i] IN
         CASE s.type = "String" -> concat_strings_loop(args, i + 1, out \o s.v)
           [] s.type = "Int" -> concat_strings_loop(args, i + 1, out \o IntToString(s.v))
           [] s.type = "Bool" -> concat_strings_loop(args, i + 1, out \o BoolToString(s.v))
           [] OTHER -> Err("Cannot format a non-primitive type")

concat_strings(args) == concat_strings_loop(args, 1, "")

(***************************************************************************)
(* functions/mod.rs: concat                                                *)
(***************************************************************************)
\* concat_loop putting each further list in front of the output
RECURSIVE concat_loop_prepend(_, _, _)
concat_loop_prepend(args, i, out) ==
    IF i > Len(args) THEN Ok(VList(out))
    ELSE LET li == as_list(args[i]) IN
         IF IsErr(li) THEN li
         ELSE concat_loop_prepend(args, i + 1, li.val \o out)

RECURSIVE concat_loop(_, _, _)
concat_loop(args, i, out) ==
    IF i > Len(args) THEN Ok(VList(out))
    ELSE LET li == as_list(args[i]) IN
         IF IsErr(li) THEN li
         ELSE concat_loop(args, i + 1, out \o li.val)

concat(args) ==
    IF ~(Len(args) > 0)
    THEN Err("Concat requires at least one argument as a list")
    ELSE LET first == as_list(args[1]) IN
         IF IsErr(first) THEN first
         ELSE concat_loop(args, 2, first.val)

(***************************************************************************)
(* functions/mod.rs: merge                                                 *)
(***************************************************************************)
\* extend keeping the value of a key out already has
extend_keep(out, li) ==
    [k \in (DOMAIN out) \cup (DOMAIN li) |-> IF k \in DOMAIN out THEN out[k] ELSE li[k]]

\* HashMap::extend: the entries of li are inserted into out, replacing
\* the values of the keys out already has
extend(out, li) ==
    [k \in (DOMAIN out) \cup (DOMAIN li) |-> IF k \in DOMAIN li THEN li[k] ELSE out[k]]

RECURSIVE merge_loop(_, _, _)
merge_loop(hm_list, i, out) ==
    IF i > Len(hm_list) THEN Ok(VHashMap(out))
    ELSE LET li == as_hashmap(hm_list[i]) IN
         IF IsErr(li) THEN li
         ELSE merge_loop(hm_list, i + 1, extend(out, li.val))

merge_items(hm_list) ==
    IF Len(hm_list) = 0
    THEN Panic("index out of bounds: the len is 0 but the index is 0")
    ELSE LET first == as_hashmap(hm_list[1]) IN
         IF IsErr(first) THEN first
         ELSE merge_loop(hm_list, 2, first.val)

merge(args) ==
    IF ~(Len(args) > 0)
    THEN Err("Merge requires at least one argument as a hashmap or a list of hashmaps")
    ELSE IF args[1].type = "List"
         THEN IF ~(Len(args) = 1)
              THEN Err("Merge expects either multiple hashmaps or a single list of hashmaps")
              ELSE merge_items(args[1].v)
         ELSE merge_items(args)

(***************************************************************************)
(* functions/mod.rs: fold                                                  *)
(***************************************************************************)
\* The functions given to fold, by name:
\*   add        (acc, ix, val) => acc + val
\*   last       (acc, ix, val) => val
\*   fail_on_2  (acc, ix, val) => acc + val, failing when val is 2
\*   count      (acc, ix, val) => acc + 1
FuncNames == {"add", "last", "fail_on_2", "count"}

\* Func::call
call(f, a) ==
    CASE f = "add" -> Ok(VInt(a[1].v + a[3].v))
      [] f = "last" -> Ok(a[3])
      [] f = "count" -> Ok(VInt(a[1].v + 1))
      [] f = "fail_on_2" ->
            IF a[3].v = 2 THEN Err("fail_on_2") ELSE Ok(VInt(a[1].v + a[3].v))
      [] OTHER -> Err("not callable")

\* One run of fold: its result and the calls it made to the function.
FoldRun(r, c) == [res |-> r, calls |-> c]

\* fold_list giving the function the position counted from 1
RECURSIVE fold_list_from_one(_, _, _, _, _)
fold_list_from_one(func, list, ix, out, calls) ==
    IF ix >= Len(list) THEN FoldRun(Ok(out), calls)
    ELSE LET a == <<out, VInt(ix + 1), list[ix + 1]>>
             r == call(func, a)
         IN IF IsErr(r) THEN FoldRun(r, Append(calls, a))
            ELSE fold_list_from_one(func, list, ix + 1, r.val, Append(calls, a))

\* the loop over a list: ix counts from 0, list[ix + 1] is the element
RECURSIVE fold_list(_, _, _, _, _)
fold_list(func, list, ix, out, calls) ==
    IF ix >= Len(list) THEN FoldRun(Ok(out), calls)
    ELSE LET a == <<out, VInt(ix), list[ix + 1]>>
             r == call(func, a)
         IN IF IsErr(r) THEN FoldRun(r, Append(calls, a))
            ELSE fold_list(func, list, ix + 1, r.val, Append(calls, a))

\* fold_hashmap leaving out the last entry iterated
RECURSIVE fold_hashmap_short(_, _, _, _, _, _)
fold_hashmap_short(func, hm, iter, i, out, calls) ==
    IF i >= Len(iter) THEN FoldRun(Ok(out), calls)
    ELSE LET a == <<out, VString(iter[i]), hm[iter[i]]>>
             r == call(func, a)
         IN IF IsErr(r) THEN FoldRun(r, Append(calls, a))
            ELSE fold_hashmap_short(func, hm, iter, i + 1, r.val, Append(calls, a))

\* the loop over a map: iter is the order in which HashMap::iter yields
\* the keys
RECURSIVE fold_hashmap(_, _, _, _, _, _)
fold_hashmap(func, hm, iter, i, out, calls) ==
    IF i > Len(iter) THEN FoldRun(Ok(out), calls)
    ELSE LET a == <<out, VString(iter[i]), hm[iter[i]]>>
             r == call(func, a)
         IN IF IsErr(r) THEN FoldRun(r, Append(calls, a))
            ELSE fold_hashmap(func, hm, iter, i + 1, r.val, Append(calls, a))

\* the orders in which the keys of a map can be iterated
IterOrders(hm) ==
    {o \in [1..Cardinality(DOMAIN hm) -> DOMAIN hm] :
        \A i, j \in DOMAIN o : i # j => o[i] # o[j]}

\* fold, when a map given as third argument is iterated in order iter
fold(args, iter) ==
    IF ~(Len(args) = 3)
    THEN FoldRun(Err("Fold requires 3 arguments (initial value, accumulation function, list or hashmap)"), <<>>)
    ELSE LET func == as_func(args[2]) IN
         IF IsErr(func) THEN FoldRun(func, <<>>)
         ELSE CASE args[3].type = "List" ->
                     fold_list(func.val, args[3].v, 0, args[1], <<>>)
                [] args[3].type = "HashMap" ->
                     fold_hashmap(func.val, args[3].v, iter, 1, args[1], <<>>)
                [] OTHER ->
                     FoldRun(Err("3rd argument must be either a list or a hashmap"), <<>>)

(***************************************************************************)
(* The syntax tree given to the compiler (parser::Expr).  Comparison,      *)
(* Conditional, Logical, the Object literal and the DotField and Index     *)
(* suffixes compile their operands under the same context as Math does;    *)
(* they and Import are left out of the tree.                               *)
(***************************************************************************)
EBool(x) == [expr |-> "Bool", v |-> x]
EInt(x) == [expr |-> "Int", v |-> x]
EString(cs) == [expr |-> "String", cs |-> cs]
EList(list) == [expr |-> "List", list |-> list]
EIdentifier(id) == [expr |-> "Identifier", id |-> id]
EFuncDefinition(arguments, expression) ==
    [expr |-> "FuncDefinition", arguments |-> arguments, expression |-> expression]
EMath(op, expr1, expr2) == [expr |-> "Math", op |-> op, expr1 |-> expr1, expr2 |-> expr2]
EApply(base, args) == [expr |-> "FunctionApplication", base |-> base, args |-> args]
\* local_assignments is a sequence of pairs <<id, ex>>
EBlock(local_assignments, expression) ==
    [expr |-> "Block", local_assignments |-> local_assignments, expression |-> expression]

\* the fragments of a string literal (ConfigString)
Raw(s) == [frag |-> "Raw", s |-> s]
Interpolated(a) == [frag |-> "Interpolated", a |-> a]

(***************************************************************************)
(* Code nodes (NodeContent; the location of a node is left out).           *)
(***************************************************************************)
None == [some |-> FALSE, v |-> <<>>]
Some(x) == [some |-> TRUE, v |-> x]

Resolved(v) == [node |-> "Resolved", v |-> v]
NodeList(nodes) == [node |-> "List", nodes |-> nodes]
FunctionInputArgument(name) == [node |-> "FunctionInputArgument", name |-> name]
FunctionDefinition(node, argument_names) ==
    [node |-> "FunctionDefinition", body |-> node, argument_names |-> argument_names]
FunctionCall(name, function, arguments) ==
    [node |-> "FunctionCall", name |-> name, function |-> function, arguments |-> arguments]

builtin_func_node(func) == Resolved(VFunc(func))

(***************************************************************************)
(* Context: a chain of scopes, the innermost last; a scope maps the        *)
(* identifiers bound in it to their nodes.                                 *)
(***************************************************************************)
EmptyScope == [id \in {} |-> None]

ContextEmpty == <<EmptyScope>>

new_child(ctx) == Append(ctx, EmptyScope)

bind(ctx, id, node) ==
    LET scope == ctx[Len(ctx)] IN
    [ctx EXCEPT ![Len(ctx)] =
        [k \in (DOMAIN scope) \cup {id} |-> IF k = id THEN node ELSE scope[k]]]

\* the node of the innermost scope that binds id
RECURSIVE get_value_from(_, _, _)
get_value_from(ctx, i, id) ==
    IF i = 0 THEN None
    ELSE IF id \in DOMAIN ctx[i] THEN Some(ctx[i][id])
    ELSE get_value_from(ctx, i - 1, id)

get_value(ctx, id) == get_value_from(ctx, Len(ctx), id)

(***************************************************************************)
(* compile.rs: Compiler                                                    *)
(***************************************************************************)
RECURSIVE compile(_, _), compile_all(_, _, _, _), string_kids(_, _, _, _),
          block_loop(_, _, _), bind_arguments(_, _, _)

\* identifier looking in the built-in table before the context
identifier_builtin_first(ctx, id) ==
    LET bound == get_value(ctx, id)
        func_node == IF lookup(id) # "None" THEN Some(builtin_func_node(lookup(id)))
                     ELSE IF bound.some THEN bound
                     ELSE None
    IN IF ~func_node.some THEN Err("Variable '" \o id \o "' is not defined")
       ELSE Ok(FunctionCall(id, func_node.v, None))

identifier(ctx, id) ==
    LET bound == get_value(ctx, id)
        func_node == IF bound.some THEN bound
                     ELSE IF lookup(id) # "None" THEN Some(builtin_func_node(lookup(id)))
                     ELSE None
    IN IF ~func_node.some THEN Err("Variable '" \o id \o "' is not defined")
       ELSE Ok(FunctionCall(id, func_node.v, None))

\* exprs.iter().map(|x| self.compile(ctx, x)).collect::<Result<Vec, Error>>()
compile_all(ctx, exprs, i, nodes) ==
    IF i > Len(exprs) THEN Ok(nodes)
    ELSE LET n == compile(ctx, exprs[i]) IN
         IF IsErr(n) THEN n
         ELSE compile_all(ctx, exprs, i + 1, Append(nodes, n.val))

string_kids(ctx, cs, i, kids) ==
    IF i > Len(cs) THEN Ok(kids)
    ELSE IF cs[i].frag = "Raw"
         THEN string_kids(ctx, cs, i + 1, Append(kids, Resolved(VString(cs[i].s))))
         ELSE LET n == compile(ctx, cs[i].a) IN
              IF IsErr(n) THEN n
              ELSE string_kids(ctx, cs, i + 1, Append(kids, n.val))

string(ctx, cs) ==
    LET kids == string_kids(ctx, cs, 1, <<>>) IN
    IF IsErr(kids) THEN kids
    ELSE Ok(FunctionCall("concat", builtin_func_node("concat_strings"), Some(kids.val)))

math_op(ctx, op) ==
    LET a1 == compile(ctx, op.expr1) IN
    IF IsErr(a1) THEN a1
    ELSE LET a2 == compile(ctx, op.expr2) IN
         IF IsErr(a2) THEN a2
         ELSE Ok(FunctionCall(op.op, builtin_func_node("math:" \o op.op),
                              Some(<<a1.val, a2.val>>)))

suffix_operator(ctx, suffix) ==
    LET base == compile(ctx, suffix.base) IN
    IF IsErr(base) THEN base
    ELSE LET args == compile_all(ctx, suffix.args, 1, <<>>) IN
         IF IsErr(args) THEN args
         ELSE Ok(FunctionCall(".apply", base.val, Some(args.val)))

bind_arguments(ns, arguments, i) ==
    IF i > Len(arguments) THEN ns
    ELSE bind_arguments(bind(ns, arguments[i], FunctionInputArgument(arguments[i])),
                        arguments, i + 1)

func_definition(ctx, fd) ==
    LET ns == bind_arguments(new_child(ctx), fd.arguments, 1)
        val == compile(ns, fd.expression)
    IN IF IsErr(val) THEN val
       ELSE Ok(FunctionDefinition(val.val, Some(fd.arguments)))

\* block_loop binding the identifier before its right-hand side is compiled
block_loop_bind_first(ns, block, i) ==
    IF i > Len(block.local_assignments) THEN compile(ns, block.expression)
    ELSE LET id == block.local_assignments[i][1]
             ex == block.local_assignments[i][2]
             node == compile(bind(ns, id, FunctionInputArgument(id)), ex)
         IN IF IsErr(node) THEN node
            ELSE block_loop(bind(ns, id, node.val), block, i + 1)

\* the loop of block over local_assignments[i..], ns holding the bindings
\* made so far, and then the final expression
block_loop(ns, block, i) ==
    IF i > Len(block.local_assignments) THEN compile(ns, block.expression)
    ELSE LET id == block.local_assignments[i][1]
             ex == block.local_assignments[i][2]
             node == compile(ns, ex)
         IN IF IsErr(node) THEN node
            ELSE block_loop(bind(ns, id, node.val), block, i + 1)

block(ctx, b) == block_loop(new_child(ctx), b, 1)

compile(ctx, e) ==
    CASE e.expr = "Bool" -> Ok(Resolved(VBool(e.v)))
      [] e.expr = "Int" -> Ok(Resolved(VInt(e.v)))
      [] e.expr = "String" -> string(ctx, e.cs)
      [] e.expr = "List" ->
            LET nodes == compile_all(ctx, e.list, 1, <<>>) IN
            IF IsErr(nodes) THEN nodes ELSE Ok(NodeList(nodes.val))
      [] e.expr = "Block" -> block(ctx, e)
      [] e.expr = "Identifier" -> identifier(ctx, e.id)
      [] e.expr = "FuncDefinition" -> func_definition(ctx, e)
      [] e.expr = "Math" -> math_op(ctx, e)
      [] e.expr = "FunctionApplication" -> suffix_operator(ctx, e)

(***************************************************************************)
(* The evaluation of the nodes a string literal compiles to: a resolved    *)
(* value, a reference (arguments absent) and a call of a built-in.         *)
(***************************************************************************)
apply_builtin(f, args) ==
    CASE f = "concat_strings" -> concat_strings(args)
      [] f = "concat" -> concat(args)
      [] f = "merge" -> merge(args)
      [] OTHER -> Err("not a function")

RECURSIVE eval(_), eval_all(_, _, _)

eval_all(nodes, i, vals) ==
    IF i > Len(nodes) THEN Ok(vals)
    ELSE LET r == eval(nodes[i]) IN
         IF ~IsOk(r) THEN r ELSE eval_all(nodes, i + 1, Append(vals, r.val))

eval(n) ==
    CASE n.node = "Resolved" -> Ok(n.v)
      [] n.node = "FunctionCall" ->
            IF ~n.arguments.some THEN eval(n.function)
            ELSE LET f == eval(n.function) IN
                 IF ~IsOk(f) THEN f
                 ELSE IF f.val.type # "Func" THEN Err("not a function")
                 ELSE LET a == eval_all(n.arguments.v, 1, <<>>) IN
                      IF ~IsOk(a) THEN a ELSE apply_builtin(f.val.v, a.val)
      [] OTHER -> Err("not evaluated")

(***************************************************************************)
(* methods/string.rs: unindent.  A text is a sequence of characters,       *)
(* all of them of one byte.                                                *)
(***************************************************************************)
\* the byte of a character, the order str::cmp sorts by
Byte(c) ==
    CASE c = "\t" -> 9
      [] c = "\n" -> 10
      [] c = "\r" -> 13
      [] c = " " -> 32
      [] OTHER -> 120

is_whitespace(c) == c \in {"\t", "\n", "\r", " "}

\* str::lines: the pieces between line feeds, without the line feed and a
\* carriage return before it; no last piece after a final line feed
RECURSIVE lines_from(_, _, _, _)
lines_from(text, i, cur, acc) ==
    IF i > Len(text) THEN (IF cur = <<>> THEN acc ELSE Append(acc, cur))
    ELSE IF text[i] = "\n"
         THEN lines_from(text, i + 1, <<>>,
                  Append(acc, IF cur # <<>> /\ cur[Len(cur)] = "\r"
                              THEN SubSeq(cur, 1, Len(cur) - 1) ELSE cur))
         ELSE lines_from(text, i + 1, Append(cur, text[i]), acc)

lines(text) == lines_from(text, 1, <<>>, <<>>)

\* x.trim().is_empty()
trim_is_empty(x) == \A i \in DOMAIN x : is_whitespace(x[i])

\* x.find(|s| !char::is_whitespace(s)).unwrap_or(0)
find_non_whitespace(x) ==
    IF trim_is_empty(x) THEN 0
    ELSE (CHOOSE i \in DOMAIN x :
            /\ ~is_whitespace(x[i])
            /\ \A j \in 1..(i - 1) : is_whitespace(x[j])) - 1

\* a < b as str::cmp orders them
RECURSIVE str_less(_, _, _)
str_less(a, b, i) ==
    IF i > Len(a) THEN i <= Len(b)
    ELSE IF i > Len(b) THEN FALSE
    ELSE IF a[i] # b[i] THEN Byte(a[i]) < Byte(b[i])
    ELSE str_less(a, b, i + 1)

RECURSIVE insert_sorted(_, _)
insert_sorted(sorted, x) ==
    IF sorted = <<>> THEN <<x>>
    ELSE IF str_less(x, sorted[1], 1) THEN <<x>> \o sorted
    ELSE <<sorted[1]>> \o insert_sorted(Tail(sorted), x)

RECURSIVE sort_unstable(_)
sort_unstable(list) ==
    IF list = <<>> THEN <<>>
    ELSE insert_sorted(sort_unstable(Tail(list)), list[1])

\* the leading whitespace of the lines that are not blank, in line order
RECURSIVE whitespaces_of(_, _, _)
whitespaces_of(ls, i, acc) ==
    IF i > Len(ls) THEN acc
    ELSE IF trim_is_empty(ls[i]) THEN whitespaces_of(ls, i + 1, acc)
    ELSE whitespaces_of(ls, i + 1,
             Append(acc, SubSeq(ls[i], 1, find_non_whitespace(ls[i]))))

\* the loop counting the positions at which first and last agree
RECURSIVE count_equal(_, _, _, _)
count_equal(first, last, ix, cnt) ==
    IF ix >= (IF Len(first) < Len(last) THEN Len(first) ELSE Len(last)) THEN cnt
    ELSE count_equal(first, last, ix + 1,
                     IF first[ix + 1] = last[ix + 1] THEN cnt + 1 ELSE cnt)

\* prefix_len_of taking the length of the last prefix
prefix_len_of_last(prefixed_whitespaces) ==
    Len(prefixed_whitespaces[Len(prefixed_whitespaces)])

\* prefix_len, for one or more prefixes
prefix_len_of(prefixed_whitespaces) ==
    IF Len(prefixed_whitespaces) = 1 THEN Len(prefixed_whitespaces[1])
    ELSE count_equal(prefixed_whitespaces[1],
                     prefixed_whitespaces[Len(prefixed_whitespaces)], 0, 0)

\* Vec<&str>::join("\n")
RECURSIVE join(_, _, _)
join(ls, i, acc) ==
    IF i > Len(ls) THEN acc
    ELSE join(ls, i + 1, IF i = 1 THEN ls[i] ELSE acc \o <<"\n">> \o ls[i])

\* the map over the lines: "" for a blank line, &s[prefix_len..] otherwise
strip_line(s, prefix_len) ==
    IF trim_is_empty(s) THEN <<>> ELSE SubSeq(s, prefix_len + 1, Len(s))

unindent(text, args) ==
    IF args # <<>> THEN Err("'unindent' does not take any arguments")
    ELSE LET ls == lines(text)
             prefixed_whitespaces == sort_unstable(whitespaces_of(ls, 1, <<>>))
         IN IF Len(prefixed_whitespaces) = 0 THEN Ok(VString(text))
            ELSE LET prefix_len == prefix_len_of(prefixed_whitespaces) IN
                 IF \E i \in DOMAIN ls : ~trim_is_empty(ls[i]) /\ prefix_len > Len(ls[i])
                 THEN Panic("byte index is out of bounds")
                 ELSE Ok(VString(join([i \in DOMAIN ls |-> strip_line(ls[i], prefix_len)],
                                      1, <<>>)))

(***************************************************************************)
(* The calls of the built-in functions.                                    *)
(***************************************************************************)
Vals == {1, 2}
MergeKeys == {"name", "age"}
FoldVals == {1, 2, 3}
FoldKeys == {"aa", "bb", "cc"}

\* the maps from some of the keys K to the integers V
MapsOver(K, V) == UNION {[D -> {VInt(x) : x \in V}] : D \in SUBSET K}

MergeItems == {VHashMap(m) : m \in MapsOver(MergeKeys, Vals)} \cup {VInt(1), VList(<<>>)}

\* merge is called with up to MaxArgs items, as arguments or as one list
IsMergeCall(c) ==
    \E k \in 0..MaxArgs : \E a \in [1..k -> MergeItems] :
        \/ c = [name |-> "merge", args |-> a]
        \/ c = [name |-> "merge", args |-> <<VList(a)>>]

ConcatItems ==
    {VList(l) : l \in SeqUpTo({VInt(x) : x \in Vals}, MaxConcatLen)} \cup {VInt(1)}

IsConcatCall(c) ==
    \E k \in 0..MaxArgs : \E a \in [1..k -> ConcatItems] :
        c = [name |-> "concat", args |-> a]

FoldInits == {VInt(0), VInt(5)}
FoldFuncs == {VFunc(f) : f \in FuncNames} \cup {VInt(1)}
FoldColls ==
    {VList(l) : l \in SeqUpTo({VInt(x) : x \in FoldVals}, MaxLen)}
        \cup {VHashMap(m) : m \in MapsOver(FoldKeys, FoldVals)}
        \cup {VInt(1)}

FoldArgs ==
    {<<i, f, c>> : i \in FoldInits, f \in FoldFuncs, c \in FoldColls}
        \cup {<<>>, <<VInt(0)>>, <<VInt(0), VFunc("add")>>,
              <<VInt(0), VFunc("add"), VList(<<VInt(1)>>), VInt(1)>>}

FormatItems ==
    {VString(""), VString("a"), VString("b "), VInt(0), VInt(12), VInt(-3),
     VBool(TRUE), VBool(FALSE), VList(<<>>), VHashMap(<<>>), VFunc("add")}

IsFoldCall(c) == \E a \in FoldArgs : c = [name |-> "fold", args |-> a]

IsConcatStringsCall(c) ==
    \E k \in 0..MaxArgs : \E a \in [1..k -> FormatItems] :
        c = [name |-> "concat_strings", args |-> a]

(***************************************************************************)
(* The expressions compiled, and the contexts they are compiled in.        *)
(***************************************************************************)
Ids == {"f", "g", "concat"}

\* what an enclosing scope binds an identifier to
Outer(tag) == Resolved(VString(tag))

Contexts ==
    {ContextEmpty,
     <<[id \in {"g"} |-> Outer("mike")]>>,
     <<[id \in {"f", "concat"} |-> Outer("outer")]>>,
     <<[id \in {"g", "concat"} |-> Outer("outer")], [id \in {"g"} |-> Resolved(VInt(12))]>>}

Atoms == {EInt(1)} \cup {EIdentifier(id) : id \in Ids}

FuncDefinitions ==
    {EFuncDefinition(<<>>, EIdentifier("f")),
     EFuncDefinition(<<"g">>, EIdentifier("g")),
     EFuncDefinition(<<"g">>, EApply(EIdentifier("f"), <<EIdentifier("g")>>))}

Assignments == {<<id, ex>> : id \in {"f", "g"}, ex \in Atoms \cup FuncDefinitions}

Finals ==
    Atoms \cup {EApply(EIdentifier("f"), <<EInt(1)>>),
                EString(<<Interpolated(EIdentifier("g"))>>),
                EString(<<Raw("Name: "), Interpolated(EIdentifier("g")), Raw("!")>>)}

\* the expressions that are not blocks
Plain ==
    Finals \cup FuncDefinitions \cup {EIdentifier(id) : id \in BuiltinNames}
        \cup {EList(<<EInt(1), EIdentifier("g")>>),
              EMath("Add", EIdentifier("g"), EBool(TRUE))}

\* a plain expression, or a block of up to MaxLets assignments, is compiled
IsCompilation(c) ==
    \E ctx \in Contexts :
        \/ \E e \in Plain : c = [name |-> "compile", ctx |-> ctx, expr |-> e]
        \/ \E k \in 0..MaxLets : \E as \in [1..k -> Assignments] : \E ex \in Finals :
              c = [name |-> "compile", ctx |-> ctx, expr |-> EBlock(as, ex)]

(***************************************************************************)
(* The strings given to unindent: lines of an indentation (spaces, or a    *)
(* tab and spaces) and a letter, and blank lines.                          *)
(***************************************************************************)
Spaces(n) == [i \in 1..n |-> " "]

Indents ==
    {Spaces(n) : n \in 0..MaxIndent} \cup {<<"\t">> \o Spaces(n - 1) : n \in 1..MaxIndent}

TextLines == {ws \o <<"x">> : ws \in Indents} \cup {<<>>, <<" ">>}

\* unindent is called on a text of up to MaxLines lines
IsMethodCall(c) ==
    \/ \E k \in 0..MaxLines : \E ls \in [1..k -> TextLines] :
          c = [name |-> "unindent", text |-> join(ls, 1, <<>>), args |-> <<>>]
    \/ c = [name |-> "unindent", text |-> <<" ", "x">>, args |-> <<VInt(1)>>]

(***************************************************************************)
(* The specification.                                                      *)
(***************************************************************************)
NoRun == FoldRun([kind |-> "None", val |-> ""], <<>>)

Init ==
    /\ pc = "start"
    /\ \/ IsMergeCall(input)
       \/ IsConcatCall(input)
       \/ IsFoldCall(input)
       \/ IsConcatStringsCall(input)
       \/ IsCompilation(input)
       \/ IsMethodCall(input)
    /\ output = NoRun

Compile ==
    /\ pc = "start"
    /\ input.name = "compile"
    /\ output' = FoldRun(compile(input.ctx, input.expr), <<>>)
    /\ pc' = "done"
    /\ UNCHANGED input

CallMerge ==
    /\ pc = "start"
    /\ lookup(input.name) = "merge"
    /\ output' = FoldRun(merge(input.args), <<>>)
    /\ pc' = "done"
    /\ UNCHANGED input

CallConcat ==
    /\ pc = "start"
    /\ lookup(input.name) = "concat"
    /\ output' = FoldRun(concat(input.args), <<>>)
    /\ pc' = "done"
    /\ UNCHANGED input

\* a map given to fold is iterated in an order the program does not choose
CallFold ==
    /\ pc = "start"
    /\ lookup(input.name) = "fold"
    /\ \E iter \in IF Len(input.args) = 3 /\ input.args[3].type = "HashMap"
                    THEN IterOrders(input.args[3].v) ELSE {<<>>} :
          output' = fold(input.args, iter)
    /\ pc' = "done"
    /\ UNCHANGED input

\* concat_strings is not in the global table: string literals call it
CallConcatStrings ==
    /\ pc = "start"
    /\ input.name = "concat_strings"
    /\ output' = FoldRun(concat_strings(input.args), <<>>)
    /\ pc' = "done"
    /\ UNCHANGED input

CallUnindent ==
    /\ pc = "start"
    /\ input.name = "unindent"
    /\ output' = FoldRun(unindent(input.text, input.args), <<>>)
    /\ pc' = "done"
    /\ UNCHANGED input

Next ==
    \/ Compile
    \/ CallMerge
    \/ CallConcat
    \/ CallFold
    \/ CallConcatStrings
    \/ CallUnindent

Spec == Init /\ [][Next]_vars

(***************************************************************************)
(* Helpers of the properties of the compiler.                              *)
(***************************************************************************)
Compiled == pc = "done" /\ input.name = "compile"

Undefined(id) == Err("Variable '" \o id \o "' is not defined")

\* the identifiers an expression refers to that it does not bind itself
RECURSIVE FreeIds(_), FreeIdsOfLets(_, _, _)
FreeIds(e) ==
    CASE e.expr = "Identifier" -> {e.id}
      [] e.expr = "FuncDefinition" ->
            FreeIds(e.expression) \ {e.arguments[i] : i \in DOMAIN e.arguments}
      [] e.expr = "FunctionApplication" ->
            FreeIds(e.base) \cup UNION {FreeIds(e.args[i]) : i \in DOMAIN e.args}
      [] e.expr = "String" ->
            UNION {IF e.cs[i].frag = "Raw" THEN {} ELSE FreeIds(e.cs[i].a) : i \in DOMAIN e.cs}
      [] e.expr = "List" -> UNION {FreeIds(e.list[i]) : i \in DOMAIN e.list}
      [] e.expr = "Math" -> FreeIds(e.expr1) \cup FreeIds(e.expr2)
      [] e.expr = "Block" -> FreeIdsOfLets(e, 1, {})
      [] OTHER -> {}

FreeIdsOfLets(b, i, bound) ==
    IF i > Len(b.local_assignments) THEN FreeIds(b.expression) \ bound
    ELSE (FreeIds(b.local_assignments[i][2]) \ bound)
            \cup FreeIdsOfLets(b, i + 1, bound \cup {b.local_assignments[i][1]})

\* the identifiers the scopes of a context bind
BoundIn(ctx) == UNION {DOMAIN ctx[i] : i \in DOMAIN ctx}

\* the identifiers the assignments before the i-th bind
BoundBefore(b, i) == {b.local_assignments[j][1] : j \in 1..(i - 1)}

\* the identifiers the i-th right-hand side (the final expression, for
\* i = n + 1) refers to that neither the enclosing scopes, nor the built-ins,
\* nor an earlier assignment define
Unbound(ctx, b, i) ==
    (IF i > Len(b.local_assignments) THEN FreeIds(b.expression)
     ELSE FreeIds(b.local_assignments[i][2]))
        \ (BoundIn(ctx) \cup BuiltinNames \cup BoundBefore(b, i))

\* C1: a block `let f = (params) => body in ...` whose body refers to f
RefersTo(body, id) ==
    \/ body = EIdentifier(id)
    \/ body.expr = "FunctionApplication" /\ body.base = EIdentifier(id)

IsRecursiveLet(e) ==
    /\ e.expr = "Block"
    /\ Len(e.local_assignments) >= 1
    /\ LET id == e.local_assignments[1][1]
           fd == e.local_assignments[1][2]
       IN /\ fd.expr = "FuncDefinition"
          /\ \A i \in DOMAIN fd.arguments : fd.arguments[i] # id
          /\ RefersTo(fd.expression, id)

\* the node the reference to the function resolves to, in the compiled
\* block `let f = (params) => f in f` or `let f = (params) => f(..) in f`
SelfReference(node) ==
    LET body == node.function.body IN
    IF body.name = ".apply" THEN body.function.function ELSE body.function

\* C1: a function bound by a block's let can refer to itself: the block compiles
\* without "Variable 'f' is not defined", and the reference to f in the body
\* resolves to the definition of f.
C1_RecursiveLetCompiles ==
    (Compiled /\ IsRecursiveLet(input.expr)) =>
        LET id == input.expr.local_assignments[1][1] IN
        /\ output.res # Undefined(id)
        /\ (/\ IsOk(output.res)
            /\ Len(input.expr.local_assignments) = 1
            /\ input.expr.expression = EIdentifier(id))
              => SelfReference(output.res.val).node = "FunctionDefinition"

\* C2: block compilation is a sequential let: the i-th right-hand side sees the
\* enclosing scopes, the built-ins and the assignments before it, and no later
\* one; the final expression sees all of them.  So the block fails as undefined
\* at the first right-hand side (or final expression) that refers to a name
\* bound by none of these, and compiles otherwise; a name of an enclosing scope
\* that a later assignment binds too resolves to the enclosing scope's node.
C2_SequentialLet ==
    (Compiled /\ input.expr.expr = "Block") =>
        LET b == input.expr
            ctx == input.ctx
            n == Len(b.local_assignments)
            failing == {i \in 1..(n + 1) : Unbound(ctx, b, i) # {}}
        IN /\ failing = {} => IsOk(output.res)
           /\ failing # {} =>
                LET k == CHOOSE i \in failing : \A j \in failing : i <= j IN
                \E id \in Unbound(ctx, b, k) : output.res = Undefined(id)
           /\ \A x \in Ids, id \in BoundIn(ctx) :
                (/\ n >= 2
                 /\ b.local_assignments[1] = <<x, EIdentifier(id)>>
                 /\ \E j \in 2..n : b.local_assignments[j][1] = id
                 /\ \A j \in 2..n : b.local_assignments[j][1] # x
                 /\ b.expression = EIdentifier(x)
                 /\ IsOk(output.res))
                  => output.res.val =
                        FunctionCall(x, FunctionCall(id, get_value(ctx, id).v, None), None)
           /\ \A id \in Ids :
                (/\ n >= 1
                 /\ b.local_assignments[n] = <<id, EInt(1)>>
                 /\ b.expression = EIdentifier(id)
                 /\ IsOk(output.res))
                  => output.res.val = FunctionCall(id, Resolved(VInt(1)), None)

\* C2 witness: `let f = g; g = 1 in f` compiled where an enclosing scope binds g
C2_Witness ==
    /\ Compiled
    /\ input.expr = EBlock(<<<<"f", EIdentifier("g")>>, <<"g", EInt(1)>>>>, EIdentifier("f"))
    /\ input.ctx = <<[id \in {"g"} |-> Outer("mike")]>>
    /\ output.res = Ok(FunctionCall("f", FunctionCall("g", Outer("mike"), None), None))

\* the node of the innermost scope of ctx that binds id
InnermostNode(ctx, id) ==
    LET i == CHOOSE k \in DOMAIN ctx :
                 /\ id \in DOMAIN ctx[k]
                 /\ \A j \in DOMAIN ctx : j > k => id \notin DOMAIN ctx[j]
    IN ctx[i][id]

\* C3: an identifier resolves to the node of the innermost scope that binds it,
\* else to the built-in of that name, else compilation fails with
\* "Variable '<id>' is not defined"; the node is a FunctionCall named id with
\* arguments absent.
C3_IdentifierResolution ==
    (Compiled /\ input.expr.expr = "Identifier") =>
        LET id == input.expr.id
            ctx == input.ctx
        IN IF id \in BoundIn(ctx)
           THEN output.res = Ok(FunctionCall(id, InnermostNode(ctx, id), None))
           ELSE IF id \in BuiltinNames
           THEN output.res = Ok(FunctionCall(id, Resolved(VFunc(id)), None))
           ELSE output.res = Err("Variable '" \o id \o "' is not defined")

\* C3 witness: concat compiled where an enclosing scope binds concat
C3_Witness ==
    /\ Compiled
    /\ input.expr = EIdentifier("concat")
    /\ Len(input.ctx) = 2
    /\ output.res = Ok(FunctionCall("concat", Outer("outer"), None))

(***************************************************************************)
(* Helpers of the properties of the built-in functions.                    *)
(***************************************************************************)
Called(name) == pc = "done" /\ input.name = name

AllOfType(items, type) == \A i \in DOMAIN items : items[i].type = type

\* the items merge merges: the elements of a single list argument, or the
\* arguments
MergedItems(args) ==
    IF Len(args) = 1 /\ args[1].type = "List" THEN args[1].v ELSE args

\* the last of the maps that has key k
LastWith(items, k) ==
    CHOOSE i \in DOMAIN items :
        /\ k \in DOMAIN items[i].v
        /\ \A j \in DOMAIN items : j > i => k \notin DOMAIN items[j].v

\* res is the map of the union of the keys, each with its last value
MergedAsClaimed(items, res) ==
    /\ IsOk(res)
    /\ res.val.type = "HashMap"
    /\ DOMAIN res.val.v = UNION {DOMAIN items[i].v : i \in DOMAIN items}
    /\ \A k \in DOMAIN res.val.v : res.val.v[k] = items[LastWith(items, k)].v[k]

\* C4: merge of the maps m1..mn (n >= 1), given as n arguments or as one list,
\* is the map whose keys are the union of the keys of m1..mn, each key with the
\* value of the last map that has it; a non-map among the merged items, or a
\* list followed by further arguments, is an error.
C4_MergeLastWins ==
    (Called("merge") /\ Len(input.args) >= 1) =>
        LET args == input.args
            items == MergedItems(args)
        IN /\ (Len(items) >= 1 /\ AllOfType(items, "HashMap")) =>
                 MergedAsClaimed(items, output.res)
           /\ (\E i \in DOMAIN items : items[i].type # "HashMap") => IsErr(output.res)
           /\ (args[1].type = "List" /\ Len(args) > 1) => IsErr(output.res)

\* C4 witness: a later map overwrites a key of an earlier one, in list form
C4_Witness ==
    /\ Called("merge")
    /\ Len(input.args) = 1
    /\ input.args[1].type = "List"
    /\ Len(input.args[1].v) = 3
    /\ AllOfType(input.args[1].v, "HashMap")
    /\ "name" \in DOMAIN input.args[1].v[1].v
    /\ "name" \in DOMAIN input.args[1].v[2].v
    /\ "name" \notin DOMAIN input.args[1].v[3].v
    /\ input.args[1].v[1].v["name"] # input.args[1].v[2].v["name"]
    /\ IsOk(output.res)
    /\ output.res.val.v["name"] = input.args[1].v[2].v["name"]

\* the number of elements of the lists before the i-th
RECURSIVE Offset(_, _)
Offset(args, i) == IF i <= 1 THEN 0 ELSE Offset(args, i - 1) + Len(args[i - 1].v)

\* C5: concat of n >= 1 lists is the list of their elements, list after list,
\* each in its order; concat of no argument or of a non-list is an error.
C5_ConcatInOrder ==
    Called("concat") =>
        LET args == input.args
            res == output.res
        IN IF Len(args) >= 1 /\ AllOfType(args, "List")
           THEN /\ IsOk(res)
                /\ res.val.type = "List"
                /\ Len(res.val.v) = Offset(args, Len(args) + 1)
                /\ \A i \in DOMAIN args : \A j \in DOMAIN args[i].v :
                      res.val.v[Offset(args, i) + j] = args[i].v[j]
                /\ Len(args) = 1 => res.val = args[1]
           ELSE IsErr(res)

\* C5 witness: concat of three lists, the second of them the longest
C5_Witness ==
    /\ Called("concat")
    /\ input.args = <<VList(<<VInt(1)>>), VList(<<VInt(2), VInt(1)>>), VList(<<VInt(2)>>)>>
    /\ output.res = Ok(VList(<<VInt(1), VInt(2), VInt(1), VInt(2)>>))

\* the accumulator after the i-th call of a run of fold
AccAfter(init, f, calls, i) == IF i = 0 THEN init ELSE call(f, calls[i]).val

\* the calls thread the accumulator, stop at the first error, and the result
\* is that error or the last accumulator after n calls
Threaded(init, f, n, run) ==
    LET calls == run.calls
        m == Len(calls)
    IN /\ m <= n
       /\ \A i \in 1..m : calls[i][1] = AccAfter(init, f, calls, i - 1)
       /\ \A i \in 1..(m - 1) : IsOk(call(f, calls[i]))
       /\ IF m > 0 /\ IsErr(call(f, calls[m]))
          THEN run.res = call(f, calls[m])
          ELSE m = n /\ run.res = Ok(AccAfter(init, f, calls, n))

\* C6: fold over a list calls fn in index order with (accumulator, Int i, ei),
\* the accumulator being init and then the result of the call before; the
\* result is the last result (init for the empty list); an error of fn ends the
\* fold with that error; a wrong number of arguments, a second argument that is
\* no function or a third that is neither list nor map is an error.
C6_FoldListLeftToRight ==
    Called("fold") =>
        LET args == input.args IN
        IF Len(args) # 3 THEN IsErr(output.res) /\ output.calls = <<>>
        ELSE IF args[2].type # "Func" THEN IsErr(output.res) /\ output.calls = <<>>
        ELSE IF args[3].type \notin {"List", "HashMap"}
             THEN IsErr(output.res) /\ output.calls = <<>>
        ELSE args[3].type = "List" =>
                LET list == args[3].v IN
                /\ Threaded(args[1], args[2].v, Len(list), output)
                /\ \A i \in DOMAIN output.calls :
                      /\ output.calls[i][2] = VInt(i - 1)
                      /\ output.calls[i][3] = list[i]
                /\ list = <<>> => output = FoldRun(Ok(args[1]), <<>>)

\* C6 witness: fold(5, last, [1, 2, 3]) made three calls and returned 3
C6_Witness ==
    /\ Called("fold")
    /\ input.args = <<VInt(5), VFunc("last"), VList(<<VInt(1), VInt(2), VInt(3)>>)>>
    /\ Len(output.calls) = 3
    /\ output.calls[3] = <<VInt(2), VInt(2), VInt(3)>>
    /\ output.res = Ok(VInt(3))

RECURSIVE SumOver(_, _)
SumOver(hm, keys) ==
    IF keys = {} THEN 0
    ELSE LET k == CHOOSE x \in keys : TRUE IN hm[k].v + SumOver(hm, keys \ {k})

\* the functions that are commutative and associative in the values
Commutative == {"add", "count"}

Decimal == (0 :> "0") @@ (12 :> "12") @@ ((-3) :> "-3")

\* the text concat_strings is to write for a primitive value
TextOf(x) ==
    CASE x.type = "String" -> x.v
      [] x.type = "Int" -> Decimal[x.v]
      [] x.type = "Bool" -> IF x.v THEN "true" ELSE "false"

RECURSIVE TextOfAll(_)
TextOfAll(args) == IF args = <<>> THEN "" ELSE TextOf(Head(args)) \o TextOfAll(Tail(args))

Primitive(x) == x.type \in {"String", "Int", "Bool"}

\* the node a fragment of a string literal is compiled to, for the literals
\* of Exprs
FragmentNode(ctx, c) ==
    IF c.frag = "Raw" THEN Resolved(VString(c.s))
    ELSE FunctionCall(c.a.id, InnermostNode(ctx, c.a.id), None)

\* C9: a string literal compiles to a call of concat_strings on its fragments in
\* textual order; "${x}" with x a String evaluates to x; concat_strings is the
\* concatenation of its arguments, a String as is, an Int in decimal, a Bool as
\* true or false, and an error for a List, Map or Func.
C9_InterpolationRoundTrip ==
    /\ (Compiled /\ input.expr.expr = "String" /\ IsOk(output.res)) =>
          LET cs == input.expr.cs
              node == output.res.val
          IN /\ node.node = "FunctionCall"
             /\ node.function = Resolved(VFunc("concat_strings"))
             /\ node.arguments.some
             /\ Len(node.arguments.v) = Len(cs)
             /\ \A i \in DOMAIN cs : node.arguments.v[i] = FragmentNode(input.ctx, cs[i])
             /\ \A id \in BoundIn(input.ctx) :
                   (/\ cs = <<Interpolated(EIdentifier(id))>>
                    /\ InnermostNode(input.ctx, id).node = "Resolved"
                    /\ InnermostNode(input.ctx, id).v.type = "String")
                     => eval(node) = Ok(InnermostNode(input.ctx, id).v)
    /\ Called("concat_strings") =>
          IF \A i \in DOMAIN input.args : Primitive(input.args[i])
          THEN output.res = Ok(VString(TextOfAll(input.args)))
          ELSE IsErr(output.res)

\* C9 witness: "${g}" compiled where g is the string mike
C9_Witness ==
    /\ Compiled
    /\ input.expr = EString(<<Interpolated(EIdentifier("g"))>>)
    /\ input.ctx = <<[id \in {"g"} |-> Outer("mike")]>>
    /\ IsOk(output.res)
    /\ eval(output.res.val) = Ok(VString("mike"))

(***************************************************************************)
(* Helpers of the properties of unindent.                                  *)
(***************************************************************************)
Blank(line) == \A i \in DOMAIN line : line[i] \in {"\t", "\n", "\r", " "}

\* the number of whitespace characters in front of a line
Indentation(line) ==
    Cardinality({i \in DOMAIN line : \A j \in 1..i : line[j] \in {"\t", "\n", "\r", " "}})

NonBlank(ls) == {i \in DOMAIN ls : ~Blank(ls[i])}

SpacesOnly(ls) ==
    \A i \in NonBlank(ls) : \A j \in 1..Indentation(ls[i]) : ls[i][j] = " "

\* the smallest indentation of the lines that are not blank
MinIndentation(ls) ==
    IF NonBlank(ls) = {} THEN 0
    ELSE LET i == CHOOSE k \in NonBlank(ls) :
                      \A j \in NonBlank(ls) : Indentation(ls[k]) <= Indentation(ls[j])
         IN Indentation(ls[i])

\* the lines ls, the blank ones emptied and the others without their first
\* m characters
Stripped(ls, m) ==
    [i \in DOMAIN ls |-> IF Blank(ls[i]) THEN <<>> ELSE SubSeq(ls[i], m + 1, Len(ls[i]))]

Unindented == Called("unindent") /\ input.args = <<>>

\* C8 as stated: for a string whose non-blank lines are indented with spaces
\* only, unindent removes the smallest indentation m from every non-blank
\* line and empties every blank line.  The result is compared line by line, so
\* that a line feed at its end does not count.
C8_AsStated ==
    (Unindented /\ SpacesOnly(lines(input.text))) =>
        LET ls == lines(input.text)
            want == Stripped(ls, MinIndentation(ls))
        IN /\ IsOk(output.res)
           /\ LET got == lines(output.res.val.v) IN
              /\ Len(got) <= Len(ls)
              /\ \A i \in DOMAIN got : got[i] = want[i]
              /\ \A i \in (DOMAIN ls) \ (DOMAIN got) : want[i] = <<>>

\* C8 as amended: the same for a string that has a non-blank line; a string
\* with no non-blank line is returned unchanged.
C8_UnindentSpaces ==
    (Unindented /\ SpacesOnly(lines(input.text))) =>
        LET ls == lines(input.text) IN
        IF NonBlank(ls) # {}
        THEN output.res = Ok(VString(join(Stripped(ls, MinIndentation(ls)), 1, <<>>)))
        ELSE output.res = Ok(VString(input.text))

\* C8 witness: lines indented by 3 and 1 spaces around a blank line
C8_Witness ==
    /\ Unindented
    /\ input.text = <<" ", " ", " ", "x", "\n", " ", "\n", " ", "x">>
    /\ output.res = Ok(VString(<<" ", " ", "x", "\n", "\n", "x">>))

\* C10: unindent always returns a String, and strips from the non-blank lines a
\* number of characters that is at most the indentation of each of them: no
\* character that is not whitespace is removed and no line is sliced past its
\* end.
C10_UnindentStripsWhitespaceOnly ==
    Unindented =>
        LET ls == lines(input.text) IN
        \/ NonBlank(ls) = {} /\ output.res = Ok(VString(input.text))
        \/ \E m \in 0..MinIndentation(ls) :
              output.res = Ok(VString(join(Stripped(ls, m), 1, <<>>)))

\* C11: for every argument list merge ends with a Map value or an error value;
\* merge of the single argument [] too, which does not abort on the first item.
C11_MergeReturnsMapOrError ==
    Called("merge") =>
        \/ IsErr(output.res)
        \/ IsOk(output.res) /\ output.res.val.type = "HashMap"

====
